---- MODULE Spec2Model ----
(***************************************************************************)
(* The habit-tracker server of src/index.js as a state machine.            *)
(*                                                                         *)
(* State: the in-memory list `habits` with its id counter `habitId`, the   *)
(* connectivity flag `isConnected` with the pending mongoose.connect       *)
(* promise, the documents of the Habit collection, the wall clock and the  *)
(* server's time-zone offset, and the last request with its response.      *)
(* One action per route handler; each handler runs to its response.        *)
(*                                                                         *)
(* Spec serves requests once the connection attempt has settled.           *)
(* SpecStartup serves them from the moment app.listen runs, SpecMotivation *)
(* adds the motivation route, SpecConcurrent splits the durable toggle at  *)
(* its awaits, SpecTwin runs one process per backend on the same requests. *)
(***************************************************************************)
EXTENDS Integers, Sequences, FiniteSets, TLC

\* ------------------------------------------------------------------ bounds
\* ids handed out per backend (creates accepted)
MaxHabits == 2

\* clock ticks per calendar day: a tick is twelve hours
TicksPerDay == 2
\* Date.prototype.getDay() counts 0..6
DaysPerWeek == 7
\* instant 0 is 1970-01-01T00:00Z, a Thursday (getDay() = 4)
EpochWeekday == 4

VARIABLES
  habits,       \* let habits = []           (the in-memory list)
  habitId,      \* let habitId = 1
  isConnected,  \* let isConnected = false
  connecting,   \* whether the promise of mongoose.connect(...) is still pending
  collection,   \* the documents of the Habit model's collection, in insertion order
  nextOid,      \* the n-th ObjectId the driver generates
  now,          \* the wall clock, in ticks since the epoch (UTC)
  tz,           \* the server's local time minus UTC, in ticks
  last,         \* the last request served and its response
  deleted,      \* the ids whose delete request was answered 200
  pending,      \* per client, its toggle suspended between findById and save
  round         \* while toggles overlap: the documents they started from and
                \* the toggles among them answered 200 so far

vars == <<habits, habitId, isConnected, connecting, collection, nextOid, now, tz, last,
          deleted, pending, round>>

\* ------------------------------------------------------- JavaScript arrays
Range(s) == {s[i] : i \in 1..Len(s)}

\* Array.prototype.includes
Includes(s, x) == \E i \in 1..Len(s) : s[i] = x

\* Array.prototype.indexOf, 1-based; 0 stands for JavaScript's -1
IndexOf(s, x) ==
  IF Includes(s, x)
  THEN CHOOSE i \in 1..Len(s) : s[i] = x /\ \A j \in 1..(i - 1) : s[j] # x
  ELSE 0

\* splice(i) without the count: everything from i on is removed
SpliceToEnd(s, i) == SubSeq(s, 1, i - 1)

\* Array.prototype.splice(i, 1), i 1-based
Splice(s, i) == SubSeq(s, 1, i - 1) \o SubSeq(s, i + 1, Len(s))

\* ------------------------------------------------------------------ titles
\* A title is a JavaScript value of the request body: undefined (no title
\* field), a number, or a string, a sequence of characters.
Strings == { <<>>, <<" ", " ">>, <<"a">>, <<" ", "a", " ">> }

Titles ==
  {[kind |-> "undefined", str |-> <<>>, num |-> 0]}
    \cup {[kind |-> "number", str |-> <<>>, num |-> 7]}
    \cup {[kind |-> "string", str |-> s, num |-> 0] : s \in Strings}

NoTitle == [kind |-> "undefined", str |-> <<>>, num |-> 0]

RECURSIVE TrimStart(_)
TrimStart(s) == IF s # <<>> /\ Head(s) = " " THEN TrimStart(Tail(s)) ELSE s

RECURSIVE TrimEnd(_)
TrimEnd(s) ==
  IF s # <<>> /\ s[Len(s)] = " " THEN TrimEnd(SubSeq(s, 1, Len(s) - 1)) ELSE s

\* trim() left out: the string as it came
TrimNothing(s) == s

\* String.prototype.trim
Trim(s) == TrimEnd(TrimStart(s))

\* !title : undefined, the number 0 and the empty string are falsy
Falsy(title) ==
  \/ title.kind = "undefined"
  \/ title.kind = "number" /\ title.num = 0
  \/ title.kind = "string" /\ title.str = <<>>

\* -------------------------------------------------------------------- ids
\* req.params.id is a string.  Two shapes matter: the decimal numeral of n
\* ("1") and the 24 hex digits of the n-th ObjectId.
NaN == -1

ReqIds ==
  {[form |-> "decimal", n |-> n] : n \in 1..MaxHabits}
    \cup {[form |-> "hex24", n |-> n] : n \in 1..MaxHabits}

NoId == [form |-> "none", n |-> 0]

\* the number a string converts to under == (h._id == id)
ToNumber(id) == IF id.form = "decimal" THEN id.n ELSE NaN

\* mongoose casts the id to an ObjectId; anything but 24 hex digits is a CastError
CastError(id) == id.form # "hex24"

\* ------------------------------------------------------------------ clock
TicksPerWeek == DaysPerWeek * TicksPerDay

\* the instants at which the clock is read: the two halves of a day, and the
\* same weekday one week later
Instants == {0, 1, TicksPerWeek}

\* the server's local time: twelve hours west of UTC, UTC, twelve hours east
TzOffsets == {-1, 0, 1}

\* the weekday a calendar day (days since the epoch) falls on
WeekdayOf(day) == (day + EpochWeekday) % DaysPerWeek

\* new Date().toISOString().split('T')[0] : the UTC calendar day of the
\* instant.  The date string is written as that day's number since the epoch.
getTodayString(t) == t \div TicksPerDay

\* new Date().getDay() : the weekday of the instant in the server's local time
getDayOfWeek(t, z) == WeekdayOf((t + z) \div TicksPerDay)

\* ----------------------------------------------------------------- habits
\* newHabit with `title` in place of `title.trim()`
NewHabitUntrimmed(title, t) ==
  [title |-> title.str, days |-> <<>>, history |-> <<>>, createdAt |-> t]

\* const newHabit = { title: title.trim(), days: [], history: [], createdAt: new Date() }
NewHabit(title, t) ==
  [title |-> Trim(title.str), days |-> <<>>, history |-> <<>>, createdAt |-> t]

\* the id taken from the creation time in place of the counter
WithIdFromClock(h, id) ==
  [id |-> h.createdAt + 1, title |-> h.title, days |-> h.days, history |-> h.history,
   createdAt |-> h.createdAt]

\* newHabit._id = ... ; a document gets its _id from `new Habit(newHabit)`
WithId(h, id) ==
  [id |-> id, title |-> h.title, days |-> h.days, history |-> h.history,
   createdAt |-> h.createdAt]

\* ToggleMemory without the `includes` test before days.push
ToggleMemoryAlwaysPush(habit, today, dayOfWeek) ==
  LET todayIndex == IndexOf(habit.history, today) IN
  IF todayIndex = 0
  THEN [habit EXCEPT
          !.history = Append(@, today),
          !.days = Append(@, dayOfWeek)]
  ELSE [habit EXCEPT
          !.history = Splice(@, todayIndex),
          !.days = LET dayIndex == IndexOf(@, dayOfWeek) IN
                   IF dayIndex # 0 THEN Splice(@, dayIndex) ELSE @]

\* ToggleMemory without the removal of the weekday when the date is removed
ToggleMemoryKeepsDay(habit, today, dayOfWeek) ==
  LET todayIndex == IndexOf(habit.history, today) IN
  IF todayIndex = 0
  THEN [habit EXCEPT
          !.history = Append(@, today),
          !.days = IF ~Includes(@, dayOfWeek) THEN Append(@, dayOfWeek) ELSE @]
  ELSE [habit EXCEPT !.history = Splice(@, todayIndex)]

\* the toggle of the in-memory branch, on the habit found
ToggleMemory(habit, today, dayOfWeek) ==
  LET todayIndex == IndexOf(habit.history, today) IN
  IF todayIndex = 0
  THEN [habit EXCEPT
          !.history = Append(@, today),
          !.days = IF ~Includes(@, dayOfWeek) THEN Append(@, dayOfWeek) ELSE @]
  ELSE [habit EXCEPT
          !.history = Splice(@, todayIndex),
          !.days = LET dayIndex == IndexOf(@, dayOfWeek) IN
                   IF dayIndex # 0 THEN Splice(@, dayIndex) ELSE @]

\* ToggleDurable with the weekday pushed at the front of days (unshift)
ToggleDurableUnshift(habit, today, dayOfWeek) ==
  LET todayIndex == IndexOf(habit.history, today) IN
  IF todayIndex = 0
  THEN [habit EXCEPT
          !.history = Append(@, today),
          !.days = IF ~Includes(@, dayOfWeek) THEN <<dayOfWeek>> \o @ ELSE @]
  ELSE [habit EXCEPT
          !.history = Splice(@, todayIndex),
          !.days = LET dayIndex == IndexOf(@, dayOfWeek) IN
                   IF dayIndex # 0 THEN Splice(@, dayIndex) ELSE @]

\* ToggleDurable that also stamps the document with the date of the toggle
ToggleDurableStamps(habit, today, dayOfWeek) ==
  LET todayIndex == IndexOf(habit.history, today) IN
  IF todayIndex = 0
  THEN [habit EXCEPT
          !.createdAt = today,
          !.history = Append(@, today),
          !.days = IF ~Includes(@, dayOfWeek) THEN Append(@, dayOfWeek) ELSE @]
  ELSE [habit EXCEPT
          !.createdAt = today,
          !.history = Splice(@, todayIndex),
          !.days = LET dayIndex == IndexOf(@, dayOfWeek) IN
                   IF dayIndex # 0 THEN Splice(@, dayIndex) ELSE @]

\* the toggle of the durable branch, on the document fetched
ToggleDurable(habit, today, dayOfWeek) ==
  LET todayIndex == IndexOf(habit.history, today) IN
  IF todayIndex = 0
  THEN [habit EXCEPT
          !.history = Append(@, today),
          !.days = IF ~Includes(@, dayOfWeek) THEN Append(@, dayOfWeek) ELSE @]
  ELSE [habit EXCEPT
          !.history = Splice(@, todayIndex),
          !.days = LET dayIndex == IndexOf(@, dayOfWeek) IN
                   IF dayIndex # 0 THEN Splice(@, dayIndex) ELSE @]

\* habits.findIndex(h => h._id == id), 1-based; 0 stands for -1
FindIndex(list, id) ==
  IF \E i \in 1..Len(list) : list[i].id = ToNumber(id)
  THEN CHOOSE i \in 1..Len(list) :
         list[i].id = ToNumber(id) /\ \A j \in 1..(i - 1) : list[j].id # ToNumber(id)
  ELSE 0

\* the position of the document Habit.findById(id) returns; 0 stands for null
FindById(docs, id) ==
  IF \E i \in 1..Len(docs) : docs[i].id = id.n
  THEN CHOOSE i \in 1..Len(docs) : docs[i].id = id.n
  ELSE 0

\* Habit.find().sort({ createdAt: -1 }) : the documents by falling createdAt;
\* documents of equal createdAt come in an order the store chooses
SortedByCreatedAt(docs) ==
  LET n == Len(docs)
      perms == {p \in [1..n -> 1..n] : \A i, j \in 1..n : i # j => p[i] # p[j]}
  IN {[i \in 1..n |-> docs[p[i]]] : p \in
        {q \in perms : \A i \in 1..(n - 1) :
           docs[q[i]].createdAt >= docs[q[i + 1]].createdAt}}

\* ------------------------------------------------------------- responses
\* res.status(status).json(...) of the handler `op`, with what it was asked
\* and the value of isConnected the handler read
Respond(op, id, title, status, error, body, before) ==
  [op |-> op, id |-> id, title |-> title, status |-> status, error |-> error,
   body |-> body, before |-> before, connected |-> isConnected,
   today |-> IF op = "toggle" THEN getTodayString(now) ELSE 0,
   dow |-> IF op = "toggle" THEN getDayOfWeek(now, tz) ELSE 0]

\* ------------------------------------------------------------- suspension
\* the clients whose requests the server handles at the same time
Clients == {"p", "q"}

\* no toggle of the client is suspended at an await
Idle == [id |-> NoId, doc |-> <<>>, today |-> 0, dow |-> 0, stale |-> FALSE]

\* ------------------------------------------------------------------ state
Init ==
  /\ habits = <<>>
  /\ habitId = 1
  /\ isConnected = FALSE
  /\ connecting \in BOOLEAN
  /\ collection = <<>>
  /\ nextOid = 1
  /\ now = 0
  /\ tz \in TzOffsets
  /\ last = [op |-> "none", id |-> NoId, title |-> NoTitle, status |-> 0,
             error |-> "", body |-> <<>>, before |-> <<>>, connected |-> FALSE,
             today |-> 0, dow |-> 0]
  /\ deleted = {}
  /\ pending = [c \in Clients |-> Idle]
  /\ round = [base |-> <<>>, toggles |-> <<>>]

\* mongoose.connect(...).then(() => { isConnected = true })
ConnectThen ==
  /\ connecting
  /\ connecting' = FALSE
  /\ isConnected' = TRUE
  /\ UNCHANGED <<habits, habitId, collection, nextOid, now, tz, last, deleted, pending, round>>

\* mongoose.connect(...).catch(err => ...)
ConnectCatch ==
  /\ connecting
  /\ connecting' = FALSE
  /\ UNCHANGED <<habits, habitId, isConnected, collection, nextOid, now, tz, last, deleted, pending, round>>

\* time passes between two requests
Tick ==
  /\ \E t \in Instants : t > now /\ now' = t
  /\ UNCHANGED <<habits, habitId, isConnected, connecting, collection, nextOid, tz, last, deleted, pending, round>>

\* Each handler takes `fault`: whether an awaited call on the document store
\* rejects (the store is unreachable).  Only the durable branch awaits one.

\* the bodies app.get('/api/habits') can answer with when no call fails:
\* res.json(dbHabits) on the durable branch, res.json(habits) on the other
ListBodies(connected, docs, list) ==
  IF connected THEN SortedByCreatedAt(docs) ELSE {list}

\* app.get('/api/habits')
GetHabits(fault) ==
  /\ fault => isConnected
  /\ IF fault
     THEN last' = Respond("list", NoId, NoTitle, 500, "Failed to fetch habits", <<>>, <<>>)
     ELSE \E body \in ListBodies(isConnected, collection, habits) :
            last' = Respond("list", NoId, NoTitle, 200, "", body, <<>>)
  /\ UNCHANGED <<habits, habitId, isConnected, connecting, collection, nextOid, now, tz, deleted, pending, round>>

\* app.post('/api/habits')
PostHabit(title, fault) ==
  IF Falsy(title) \/ (title.kind = "string" /\ Trim(title.str) = <<>>)
  THEN /\ ~fault
       /\ last' = Respond("create", NoId, title, 400, "Title is required", <<>>, <<>>)
       /\ UNCHANGED <<habits, habitId, isConnected, connecting, collection, nextOid, now, tz, deleted, pending, round>>
  ELSE IF title.kind # "string"
  THEN \* title.trim is not a function: the TypeError lands in the catch
       /\ ~fault
       /\ last' = Respond("create", NoId, title, 500, "Failed to create habit", <<>>, <<>>)
       /\ UNCHANGED <<habits, habitId, isConnected, connecting, collection, nextOid, now, tz, deleted, pending, round>>
  ELSE IF isConnected
  THEN /\ nextOid <= MaxHabits
       /\ nextOid' = nextOid + 1
       /\ IF fault
          THEN /\ last' = Respond("create", NoId, title, 500, "Failed to create habit", <<>>, <<>>)
               /\ UNCHANGED collection
          ELSE LET savedHabit == WithId(NewHabit(title, now), nextOid) IN
               /\ collection' = Append(collection, savedHabit)
               /\ last' = Respond("create", [form |-> "hex24", n |-> nextOid], title, 201, "",
                                  <<savedHabit>>, <<>>)
       /\ UNCHANGED <<habits, habitId, isConnected, connecting, now, tz, deleted, pending, round>>
  ELSE LET newHabit == WithId(NewHabit(title, now), habitId) IN
       /\ ~fault
       /\ habitId <= MaxHabits
       /\ habitId' = habitId + 1
       /\ habits' = Append(habits, newHabit)
       /\ last' = Respond("create", [form |-> "decimal", n |-> habitId], title, 201, "",
                          <<newHabit>>, <<>>)
       /\ UNCHANGED <<isConnected, connecting, collection, nextOid, now, tz, deleted, pending, round>>

\* app.patch('/api/habits/:id/toggle')
PatchToggle(id, fault) ==
  LET today == getTodayString(now)
      dayOfWeek == getDayOfWeek(now, tz)
  IN
  /\ fault => isConnected
  /\ IF isConnected
     THEN /\ IF CastError(id) \/ fault
             THEN /\ last' = Respond("toggle", id, NoTitle, 500, "Failed to toggle habit",
                                     <<>>, <<>>)
                  /\ UNCHANGED collection
             ELSE LET i == FindById(collection, id) IN
                  IF i = 0
                  THEN /\ last' = Respond("toggle", id, NoTitle, 404, "Habit not found",
                                          <<>>, <<>>)
                       /\ UNCHANGED collection
                  ELSE LET updatedHabit == ToggleDurable(collection[i], today, dayOfWeek) IN
                       /\ collection' = [collection EXCEPT ![i] = updatedHabit]
                       /\ last' = Respond("toggle", id, NoTitle, 200, "", <<updatedHabit>>,
                                          <<collection[i]>>)
          /\ UNCHANGED habits
     ELSE LET i == FindIndex(habits, id) IN
          /\ IF i = 0
             THEN /\ last' = Respond("toggle", id, NoTitle, 404, "Habit not found", <<>>, <<>>)
                  /\ UNCHANGED habits
             ELSE LET habit == ToggleMemory(habits[i], today, dayOfWeek) IN
                  /\ habits' = [habits EXCEPT ![i] = habit]
                  /\ last' = Respond("toggle", id, NoTitle, 200, "", <<habit>>, <<habits[i]>>)
          /\ UNCHANGED collection
  /\ UNCHANGED <<habitId, isConnected, connecting, nextOid, now, tz, deleted, pending, round>>

\* No toggle is suspended: the store is at rest.
Quiet == \A c \in Clients : pending[c] = Idle

\* The toggle handler of the durable branch up to its second await: the
\* clock is read, `await Habit.findById(id)` hands the document over, and
\* the handler is suspended until it saves.  (A toggle answered by the first
\* await, 404 or 500, is the step PatchToggle.)  A client has one request
\* among those that overlap.
ToggleFind(c, id) ==
  LET i == FindById(collection, id) IN
  /\ isConnected
  /\ pending[c] = Idle
  /\ ~CastError(id)
  /\ i # 0
  /\ Quiet \/ \A k \in 1..Len(round.toggles) : round.toggles[k].client # c
  /\ pending' = [pending EXCEPT ![c] =
                   [id |-> id, doc |-> <<collection[i]>>, today |-> getTodayString(now),
                    dow |-> getDayOfWeek(now, tz), stale |-> FALSE]]
  /\ round' = IF Quiet THEN [base |-> collection, toggles |-> <<>>] ELSE round
  /\ UNCHANGED <<habits, habitId, isConnected, connecting, collection, nextOid, now, tz,
                 last, deleted>>

\* The rest of the toggle handler: the arrays of the document fetched are
\* changed and `await habit.save()` writes the changes.  mongoose sends what
\* was done to each array, not the document:
\*   - history.push / days.push become $push, applied to the arrays as they
\*     are stored at the time of the save;
\*   - history.splice / days.splice become $set of the whole array, and the
\*     update then asks for the version (__v) the document was fetched with:
\*     if another save of the document went in between, save() rejects with
\*     a VersionError and the catch answers 500.
\* Every save that writes raises the version.  res.json(habit) answers with
\* the handler's own copy.
ToggleSave(c, fault) ==
  LET t == pending[c]
      i == FindById(collection, t.id)
      habit == ToggleDurable(t.doc[1], t.today, t.dow)
      pushes == IndexOf(t.doc[1].history, t.today) = 0
      rejects == fault \/ i = 0 \/ (~pushes /\ t.stale)
  IN
  /\ pending[c] # Idle
  /\ IF rejects
     THEN /\ last' = [Respond("toggle", t.id, NoTitle, 500, "Failed to toggle habit",
                              <<>>, <<>>)
                        EXCEPT !.today = t.today, !.dow = t.dow]
          /\ round' = IF \A d \in Clients \ {c} : pending[d] = Idle
                      THEN [base |-> <<>>, toggles |-> <<>>]
                      ELSE round
          /\ UNCHANGED collection
     ELSE /\ collection' =
               [collection EXCEPT ![i] =
                  IF pushes
                  THEN [@ EXCEPT
                          !.history = Append(@, t.today),
                          !.days = IF Includes(t.doc[1].days, t.dow)
                                   THEN @ ELSE Append(@, t.dow)]
                  ELSE habit]
          /\ last' = [Respond("toggle", t.id, NoTitle, 200, "", <<habit>>, t.doc)
                        EXCEPT !.today = t.today, !.dow = t.dow]
          /\ round' = IF \A d \in Clients \ {c} : pending[d] = Idle
                      THEN [base |-> <<>>, toggles |-> <<>>]
                      ELSE [round EXCEPT !.toggles =
                              Append(@, [client |-> c, id |-> t.id, today |-> t.today,
                                         dow |-> t.dow])]
  /\ pending' = [d \in Clients |->
                   IF d = c THEN Idle
                   ELSE IF ~rejects /\ pending[d].id = t.id
                   THEN [pending[d] EXCEPT !.stale = TRUE]
                   ELSE pending[d]]
  /\ UNCHANGED <<habits, habitId, isConnected, connecting, nextOid, now, tz, deleted>>

\* app.delete('/api/habits/:id')
DeleteHabit(id, fault) ==
  /\ fault => isConnected
  /\ IF isConnected
     THEN /\ IF CastError(id) \/ fault
             THEN /\ last' = Respond("delete", id, NoTitle, 500, "Failed to delete habit",
                                     <<>>, <<>>)
                  /\ UNCHANGED <<collection, deleted>>
             ELSE LET i == FindById(collection, id) IN
                  IF i = 0
                  THEN /\ last' = Respond("delete", id, NoTitle, 404, "Habit not found",
                                          <<>>, <<>>)
                       /\ UNCHANGED <<collection, deleted>>
                  ELSE /\ collection' = Splice(collection, i)
                       /\ deleted' = deleted \cup {id}
                       /\ last' = Respond("delete", id, NoTitle, 200, "", <<>>, <<>>)
          /\ UNCHANGED habits
     ELSE LET habitIndex == FindIndex(habits, id) IN
          /\ IF habitIndex = 0
             THEN /\ last' = Respond("delete", id, NoTitle, 404, "Habit not found", <<>>, <<>>)
                  /\ UNCHANGED <<habits, deleted>>
             ELSE /\ habits' = Splice(habits, habitIndex)
                  /\ deleted' = deleted \cup {id}
                  /\ last' = Respond("delete", id, NoTitle, 200, "", <<>>, <<>>)
          /\ UNCHANGED collection
  /\ UNCHANGED <<habitId, isConnected, connecting, nextOid, now, tz, pending, round>>

\* ------------------------------------------------------------- motivation
\* a quote as type.fit serves it
Quote(text, author) == [text |-> text, author |-> author]

\* const fallbackQuotes = [...]
fallbackQuotes ==
  << Quote("The only way to do great work is to love what you do.", "Steve Jobs"),
     Quote("Believe you can and you're halfway there.", "Theodore Roosevelt"),
     Quote("It always seems impossible until it's done.", "Nelson Mandela") >>

\* What the response body of type.fit can be: text that is not JSON, or the
\* JSON of null, of an object, of a list of quotes (empty, one, two quotes).
Bodies ==
  {[type |-> t, items |-> <<>>] : t \in {"invalid", "null", "object"}}
    \cup {[type |-> "array", items |-> q] :
            q \in { <<>>,
                    <<Quote("Well begun is half done.", "Aristotle")>>,
                    <<Quote("Well begun is half done.", "Aristotle"),
                      Quote("Know thyself.", "Socrates")>> }}

\* How the outbound request can end: an 'error' event, the 5 s timeout, or
\* the 'end' event of a response with one of the bodies
Fetches ==
  {[event |-> e, data |-> [type |-> "invalid", items |-> <<>>]] : e \in {"error", "timeout"}}
    \cup {[event |-> "end", data |-> b] : b \in Bodies}

\* getQuotes(): the promise rejects on 'error', on the timeout and when
\* JSON.parse(data) throws; otherwise it resolves with the value parsed
getQuotes(fetch) ==
  IF fetch.event # "end" \/ fetch.data.type = "invalid"
  THEN [state |-> "rejected", value |-> fetch.data]
  ELSE [state |-> "resolved", value |-> fetch.data]

\* the values of Math.floor(Math.random() * n), 1-based
RandomIndex(n) == 1..n

\* What res.json(...) of the motivation handler is given, as a sequence: the
\* quote, or nothing where the value is undefined.
\*   - rejected, or quotes is null (quotes.length throws): a fallback quote
\*   - an object without length: quotes[NaN] is undefined
\*   - the empty list: quotes[0] is undefined
\*   - a list: one of its elements
MotivationBodies(fetch) ==
  LET quotes == getQuotes(fetch) IN
  IF quotes.state = "rejected" \/ quotes.value.type = "null"
  THEN {<<fallbackQuotes[i]>> : i \in RandomIndex(Len(fallbackQuotes))}
  ELSE IF quotes.value.type = "object" \/ quotes.value.items = <<>>
  THEN {<<>>}
  ELSE {<<quotes.value.items[i]>> : i \in RandomIndex(Len(quotes.value.items))}

\* app.get('/api/motivation')
GetMotivation(fetch) ==
  /\ \E randomQuote \in MotivationBodies(fetch) :
       last' = Respond("motivation", NoId, NoTitle, 200, "", randomQuote, <<>>)
  /\ UNCHANGED <<habits, habitId, isConnected, connecting, collection, nextOid, now, tz, deleted, pending, round>>

\* a request is served once the connection attempt of the start has settled
Settled == ~connecting

Request ==
  \/ \E fault \in BOOLEAN : GetHabits(fault)
  \/ \E title \in Titles, fault \in BOOLEAN : PostHabit(title, fault)
  \/ \E id \in ReqIds, fault \in BOOLEAN : PatchToggle(id, fault)
  \/ \E id \in ReqIds, fault \in BOOLEAN : DeleteHabit(id, fault)

Next ==
  \/ ConnectThen
  \/ ConnectCatch
  \/ Tick
  \/ Settled /\ Request

Spec == Init /\ [][Next]_vars

\* app.listen(PORT) runs in the same turn as mongoose.connect(...): the
\* server takes requests while the promise is still pending
NextStartup ==
  \/ ConnectThen
  \/ ConnectCatch
  \/ Tick
  \/ Request

SpecStartup == Init /\ [][NextStartup]_vars

\* the server with its motivation route
NextMotivation ==
  \/ Next
  \/ \E fetch \in Fetches : GetMotivation(fetch)

SpecMotivation == Init /\ [][NextMotivation]_vars

\* the server with toggles of the durable branch that overlap: a handler
\* runs from one await to the next, and other handlers run in between
NextConcurrent ==
  \/ ConnectThen
  \/ ConnectCatch
  \/ Tick
  \/ Settled /\ Quiet /\ Request
  \/ \E c \in Clients, id \in ReqIds : ToggleFind(c, id)
  \/ \E c \in Clients, fault \in BOOLEAN : ToggleSave(c, fault)

SpecConcurrent == Init /\ [][NextConcurrent]_vars

\* Two processes side by side, given the same requests one after another:
\* one without a connection (it owns habits and habitId), one whose
\* connection has been made (it owns collection and nextOid).  isConnected
\* is the flag of the process whose turn it is; each request is served by
\* the first process, then by the second, at the same instant.

\* the id of the habit of the second process that the same create made
Renamed(id) == [form |-> "hex24", n |-> id.n]

\* it is the first process's turn and the second has answered the request
\* before
FirstToServe == ~isConnected /\ (last.op = "none" \/ last.connected)

\* the turn passes to the other process once the one has answered
TakeTurn ==
  /\ Settled
  /\ last.op # "none"
  /\ last.connected = isConnected
  /\ isConnected' = ~isConnected
  /\ UNCHANGED <<habits, habitId, connecting, collection, nextOid, now, tz, last, deleted,
                 pending, round>>

\* the process on the in-memory list serves the next request
MemoryServes ==
  /\ Settled
  /\ FirstToServe
  /\ \/ GetHabits(FALSE)
     \/ \E title \in Titles : PostHabit(title, FALSE)
     \/ \E id \in ReqIds : id.form = "decimal" /\ PatchToggle(id, FALSE)
     \/ \E id \in ReqIds : id.form = "decimal" /\ DeleteHabit(id, FALSE)

\* the process on the durable store serves the request the other has just
\* answered
DurableServes ==
  /\ isConnected
  /\ ~last.connected
  /\ \/ last.op = "list" /\ GetHabits(FALSE)
     \/ last.op = "create" /\ PostHabit(last.title, FALSE)
     \/ last.op = "toggle" /\ PatchToggle(Renamed(last.id), FALSE)
     \/ last.op = "delete" /\ DeleteHabit(Renamed(last.id), FALSE)

NextTwin ==
  \/ ConnectCatch
  \/ FirstToServe /\ Tick
  \/ TakeTurn
  \/ MemoryServes
  \/ DurableServes

SpecTwin == Init /\ [][NextTwin]_vars

\* ================================================================ claims
\* every habit held by either backend
AllHabits == Range(habits) \cup Range(collection)

\* the habits of the backend the flag selects
Store(connected, docs, list) == IF connected THEN docs ELSE list

\* the request id `id` is the id of habit h in the backend the flag selects
Names(connected, id, h) ==
  /\ id.form = (IF connected THEN "hex24" ELSE "decimal")
  /\ id.n = h.id

NoRepeat(s) == \A i, j \in 1..Len(s) : i # j => s[i] # s[j]

Weekdays == 0..(DaysPerWeek - 1)

\* The previous request was a toggle of `id` answered 200, and this step is
\* the next request: a toggle of `id` on the same day (the clock reads the
\* same date and the same weekday), answered 200 too.
SecondToggleSameDay(id) ==
  /\ last.op = "toggle" /\ last.status = 200 /\ last.id = id
  /\ PatchToggle(id, FALSE)
  /\ last'.status = 200
  /\ last'.today = last.today /\ last'.dow = last.dow

\* C1, on a server whose local time is UTC: two consecutive toggles of one
\* habit on the same day, with no request in between, leave its days and its
\* history with the entries they had before the first toggle.
C1_ToggleTwiceRestores ==
  [][\A id \in ReqIds :
       (tz = 0 /\ SecondToggleSameDay(id))
         => /\ Range(last'.body[1].days) = Range(last.before[1].days)
            /\ Range(last'.body[1].history) = Range(last.before[1].history)]_vars

\* C2, on a server whose local time is UTC: for every habit and every
\* weekday w, w is in days if and only if some date of history falls on w.
C2_DaysMatchHistory ==
  tz = 0 =>
    \A h \in AllHabits : \A w \in Weekdays :
      Includes(h.days, w) <=> \E d \in Range(h.history) : WeekdayOf(d) = w

Without(s, x) == SelectSeq(s, LAMBDA e : e # x)

Fresh(h) == h.days = <<>> /\ h.history = <<>>

\* C4: a toggle of a stored habit, read at date `today` and weekday w: when
\* today is not in history, history gains today at its end and days gains w
\* at its end unless w is there; when today is in history, history loses
\* today and days loses w; every other entry, every other field and every
\* other habit stay as they were, and the answer is 200 with the habit.
C4_ToggleResult ==
  [][\A id \in ReqIds :
       LET store == Store(isConnected, collection, habits)
           after == Store(isConnected, collection', habits')
           today == getTodayString(now)
           w == getDayOfWeek(now, tz)
       IN \A i \in 1..Len(store) :
            (Names(isConnected, id, store[i]) /\ PatchToggle(id, FALSE)) =>
              /\ Len(after) = Len(store)
              /\ \A j \in 1..Len(store) : j # i => after[j] = store[j]
              /\ after[i].id = store[i].id
              /\ after[i].title = store[i].title
              /\ after[i].createdAt = store[i].createdAt
              /\ IF ~Includes(store[i].history, today)
                 THEN /\ after[i].history = Append(store[i].history, today)
                      /\ after[i].days = IF Includes(store[i].days, w)
                                         THEN store[i].days
                                         ELSE Append(store[i].days, w)
                 ELSE /\ after[i].history = Without(store[i].history, today)
                      /\ after[i].days = Without(store[i].days, w)
              /\ last'.status = 200
              /\ last'.body = <<after[i]>>]_vars

\* the durable store has answered a toggle that took the date out of a
\* history of two dates and the weekday out of days
C4_Witness ==
  /\ isConnected
  /\ last.op = "toggle" /\ last.status = 200
  /\ Len(last.before[1].history) = 2
  /\ Includes(last.before[1].history, last.today)
  /\ Includes(last.before[1].days, last.dow)
  /\ Len(last.before[1].days) = 2

Stripped(s) ==
  LET idx == {i \in 1..Len(s) : s[i] # " "} IN
  IF idx = {} THEN <<>>
  ELSE SubSeq(s, CHOOSE i \in idx : \A j \in idx : i <= j,
                 CHOOSE i \in idx : \A j \in idx : i >= j)

\* C6: a create whose title is a string that is not empty after trimming is
\* answered 201, and every list after it holds one habit more than every
\* list before it: the habits listed before, unchanged, and one new habit with
\* the trimmed title, empty days and history, and an id no habit listed
\* before and no deleted habit had.
C6_CreateThenList ==
  [][\A title \in Titles :
       (title.kind = "string" /\ Stripped(title.str) # <<>> /\ PostHabit(title, FALSE)) =>
         /\ last'.status = 201
         /\ \A before \in ListBodies(isConnected, collection, habits),
               after \in ListBodies(isConnected', collection', habits') :
              /\ Len(after) = Len(before) + 1
              /\ Range(before) \subseteq Range(after)
              /\ \E h \in Range(after) \ Range(before) :
                   /\ h.title = Stripped(title.str)
                   /\ Fresh(h)
                   /\ \A g \in Range(before) : g.id # h.id
                   /\ \A d \in deleted : d.n # h.id
                   /\ last'.body = <<h>>]_vars

\* a create with spaces around its title has been answered 201 and the
\* backend now holds two habits
C6_Witness ==
  /\ last.op = "create" /\ last.status = 201
  /\ last.title.str = <<" ", "a", " ">>
  /\ Len(Store(isConnected, collection, habits)) = 2

\* C7: a create whose title is missing, empty, or empty after trimming is
\* answered 400 and changes neither backend, nor the next id, nor the list.
C7_InvalidTitleRejected ==
  [][\A title \in Titles :
       (/\ \/ title.kind = "undefined"
           \/ title.kind = "string" /\ Stripped(title.str) = <<>>
        /\ \E fault \in BOOLEAN : PostHabit(title, fault)) =>
         /\ last'.status = 400
         /\ UNCHANGED <<habits, habitId, collection, nextOid, deleted>>
         /\ ListBodies(isConnected', collection', habits')
              = ListBodies(isConnected, collection, habits)]_vars

\* a create with a title of spaces only has been answered 400 while a habit
\* is stored
C7_Witness ==
  /\ last.op = "create" /\ last.status = 400
  /\ last.title.kind = "string" /\ last.title.str = <<" ", " ">>
  /\ Store(isConnected, collection, habits) # <<>>

\* the request id names a habit of the backend the flag selects
NamesStored(id) ==
  \E h \in Range(Store(isConnected, collection, habits)) : Names(isConnected, id, h)

\* C8, with the store reachable: a delete for an id that names no stored
\* habit is answered 404 and leaves both backends and the list as they were.
C8_DeleteUnknownIs404 ==
  [][\A id \in ReqIds :
       (~NamesStored(id) /\ DeleteHabit(id, FALSE)) =>
         /\ last'.status = 404
         /\ UNCHANGED <<habits, collection>>
         /\ ListBodies(isConnected', collection', habits')
              = ListBodies(isConnected, collection, habits)]_vars

\* C9, with the store reachable: a toggle for an id that names no stored
\* habit is answered 404 and changes no habit.
C9_ToggleUnknownIs404 ==
  [][\A id \in ReqIds :
       (~NamesStored(id) /\ PatchToggle(id, FALSE)) =>
         /\ last'.status = 404
         /\ UNCHANGED <<habits, collection>>]_vars

C11_ListNewestFirst ==
  (last.op = "list" /\ last.status = 200) =>
    \A i, j \in 1..Len(last.body) :
      last.body[i].createdAt > last.body[j].createdAt => i < j

\* C12: every request reads the value of isConnected the request before it
\* read, from the first request the process serves to the last.
C12_OneBackendForAllRequests ==
  [][(last.op # "none" /\ Request) => isConnected = last.connected]_vars

\* the request id is the id of a habit held by either backend: the id its
\* create answered 201 with, and no delete of it has been answered 200
NamesHeld(id, h) ==
  \/ id.form = "decimal" /\ h \in Range(habits) /\ id.n = h.id
  \/ id.form = "hex24" /\ h \in Range(collection) /\ id.n = h.id

\* C18, with the store reachable: a habit created with 201 and not deleted
\* since is in every later list and every later toggle by its id is
\* answered 200, whether the request is served while the connection attempt
\* of the start is pending or after it has settled.
C18_CreatedHabitStays ==
  [][/\ GetHabits(FALSE) => AllHabits \subseteq Range(last'.body)
     /\ \A id \in ReqIds :
          ((\E h \in AllHabits : NamesHeld(id, h)) /\ PatchToggle(id, FALSE))
            => last'.status = 200]_vars

\* C13: every motivation request is answered 200 with one object whose text
\* and author are not empty, however the outbound request ends.
C13_MotivationAlwaysQuote ==
  last.op = "motivation" =>
    /\ last.status = 200
    /\ Len(last.body) = 1
    /\ last.body[1].text # "" /\ last.body[1].author # ""

\* C15: no two habits of a backend share an id, and the id a create answers
\* 201 with is the id of the new habit, of no habit stored before it and of
\* no habit deleted before it.
C15_IdsUnique ==
  [][/\ \A i, j \in 1..Len(habits') : i # j => habits'[i].id # habits'[j].id
     /\ \A i, j \in 1..Len(collection') : i # j => collection'[i].id # collection'[j].id
     /\ \A title \in Titles :
          (PostHabit(title, FALSE) /\ last'.status = 201) =>
            /\ last'.body[1].id = last'.id.n
            /\ \A h \in Range(Store(isConnected, collection, habits)) : h.id # last'.id.n
            /\ last'.id \notin deleted]_vars

\* a create has been answered 201 after the delete of the habit created
\* before it
C15_Witness ==
  /\ last.op = "create" /\ last.status = 201
  /\ deleted # {}
  /\ \A d \in deleted : d.n < last.id.n

\* C16: over every step, a habit that stays stored keeps its id, title and
\* createdAt; its days or history change only in a toggle by its id; and it
\* leaves the store only in a delete by its id.
C16_OnlyToggleMutates ==
  [][\A connected \in BOOLEAN :
       LET store == Store(connected, collection, habits)
           after == Store(connected, collection', habits')
       IN \A i \in 1..Len(store) :
            LET kept == {j \in 1..Len(after) : after[j].id = store[i].id}
                mine == {id \in ReqIds : Names(connected, id, store[i])}
            IN /\ kept = {} =>
                    (connected = isConnected /\ \E id \in mine : DeleteHabit(id, FALSE))
               /\ \A j \in kept :
                    /\ after[j].title = store[i].title
                    /\ after[j].createdAt = store[i].createdAt
                    /\ (after[j].days # store[i].days \/ after[j].history # store[i].history)
                         => (connected = isConnected
                               /\ \E id \in mine : PatchToggle(id, FALSE))]_vars

\* a toggle created later than the habit has been answered 200 while another
\* habit with a date in its history is stored
C16_Witness ==
  /\ last.op = "toggle" /\ last.status = 200
  /\ last.today * TicksPerDay > last.body[1].createdAt
  /\ \E h \in Range(Store(isConnected, collection, habits)) :
       h.id # last.body[1].id /\ h.history # <<>>

\* C19: a toggle that puts the date d into history reads a weekday w that d
\* falls on, at every instant and with every offset of the server's local
\* time.
C19_WeekdayIsOfDate ==
  (/\ last.op = "toggle" /\ last.status = 200
   /\ Includes(last.body[1].history, last.today))
    => WeekdayOf(last.today) = last.dow

\* the documents after the toggle e, handled alone from the first await to
\* the answer
AfterToggle(docs, e) ==
  LET i == FindById(docs, e.id) IN
  IF i = 0 THEN docs ELSE [docs EXCEPT ![i] = ToggleDurable(@, e.today, e.dow)]

RECURSIVE AfterAll(_, _)
AfterAll(docs, toggles) ==
  IF toggles = <<>> THEN docs
  ELSE AfterAll(AfterToggle(docs, Head(toggles)), Tail(toggles))

\* the documents after the toggles of `toggles`, one after another, in every
\* order
SerialOutcomes(docs, toggles) ==
  LET n == Len(toggles)
      orders == {p \in [1..n -> 1..n] : \A i, j \in 1..n : i # j => p[i] # p[j]}
  IN {AfterAll(docs, [k \in 1..n |-> toggles[p[k]]]) : p \in orders}

\* C14, for toggles: when the last of the toggles that overlapped is
\* answered, the documents stored are those that the toggles answered 200,
\* run one after another in some order, leave.
C14_OverlappingTogglesSerial ==
  [][\A c \in Clients :
       ((\E fault \in BOOLEAN : ToggleSave(c, fault)) /\ Quiet') =>
         LET e == [client |-> c, id |-> pending[c].id, today |-> pending[c].today,
                   dow |-> pending[c].dow]
             answered == IF last'.status = 200
                         THEN Append(round.toggles, e) ELSE round.toggles
         IN collection' \in SerialOutcomes(round.base, answered)]_vars

\* the same habits in the same order, whatever their ids
SameContents(a, b) ==
  /\ Len(a) = Len(b)
  /\ \A i \in 1..Len(a) :
       /\ a[i].title = b[i].title
       /\ a[i].days = b[i].days
       /\ a[i].history = b[i].history
       /\ a[i].createdAt = b[i].createdAt

\* C17: given the same requests one after another, the process on the
\* durable store answers each request with the status and the habits, in
\* the order, that the process on the in-memory list answers it with.
C17_BackendsAnswerAlike ==
  [][DurableServes =>
       /\ last'.status = last.status
       /\ SameContents(last'.body, last.body)]_vars

====
